---- MODULE Spec2Model ----
(***************************************************************************)
(* ADHub setup wizard: the Pinia store (stores/setup.ts), the SetupWizard  *)
(* view and its step components, modelled as a state machine.              *)
(*                                                                         *)
(* One action per event handler or per continuation of an `await`.  A      *)
(* handler runs to its first real network await in one step (JavaScript    *)
(* is run-to-completion); every request in flight is a task in `tasks`,    *)
(* and its response (or failure) is a separate action that runs the rest   *)
(* of the handler.  A component's refs live only while it is mounted: a    *)
(* task whose component was unmounted keeps running against the store but  *)
(* its writes to the component's refs are lost (live = FALSE).             *)
(***************************************************************************)
EXTENDS Integers, Sequences, FiniteSets, TLC

VARIABLES
    currentStep,            \* store: SetupStep 0..7
    setupStatus,            \* store: "null" | "yes" | "no"  (is_provisioned)
    prerequisites,          \* store: "null" | "pass" | "fail" (all_passed)
    verificationResults,    \* store: "null" | overall_status
    provisionResponse,      \* store: "null" | ProvisionStatus
    loading,                \* store
    error,                  \* store: TRUE iff an error message is set
    domainConfig,           \* store: [realm, domain, domain_name, admin_password]
    showExistingDomainModal,\* SetupWizard ref
    resetting,              \* ExistingDomainModal ref
    checking,               \* PrerequisitesStep ref
    confirmPassword,        \* DomainConfigStep ref
    provisioning,           \* ProvisionStep ref
    running,                \* VerificationStep ref
    needsPassword,          \* VerificationStep ref
    adminPassword,          \* VerificationStep ref (the prompt's input)
    tasks,                  \* requests in flight: a set of task descriptors
    timers,                 \* pending auto-advance timeouts (setTimeout)
    hostDomain,             \* the host: "none" or the DNS name of the live domain
    consoleLog,             \* what the handler that ran last wrote to the console
    provisionedSinceReset,  \* history: a provision request was sent and no resetDomain completed since
    host,                   \* Domain Reset: the domain's files on the host, live and in the backup
    resetPc,                \* Domain Reset: the sub-step resetDomain() is at
    battery,                \* prerequisites: the battery of checks of one invocation
    run,                    \* verification: the VerificationRun being built
    session                 \* the auth store (stores/auth.ts) and the router

vars == <<currentStep, setupStatus, prerequisites, verificationResults,
          provisionResponse, loading, error, domainConfig,
          showExistingDomainModal, resetting, checking, confirmPassword,
          provisioning, running, needsPassword, adminPassword, tasks, timers,
          hostDomain, consoleLog, provisionedSinceReset, host, resetPc,
          battery, run, session>>

wizardVars == <<currentStep, setupStatus, prerequisites, verificationResults,
          provisionResponse, loading, error, domainConfig,
          showExistingDomainModal, resetting, checking, confirmPassword,
          provisioning, running, needsPassword, adminPassword, tasks, timers,
          hostDomain, consoleLog, provisionedSinceReset>>

resetVars == <<host, resetPc>>

engineVars == <<battery, run>>

sessionVars == <<session>>

-----------------------------------------------------------------------------
(* Bounds of the model *)

\* Requests in flight at a time
MaxTasks == 2

\* Auto-advance timeouts pending at a time
MaxTimers == 1

\* Earlier timestamped backups kept on the host
MaxBackups == 2

\* Logout requests, sent by a failed fetchUser, in flight at a time
MaxLogouts == 1

\* Requests, other than provisioning, that may outlive the component that
\* sent them
MaxDetached == 0

\* Provisioning requests (they run for minutes) that may outlive the
\* Provision step that sent them
MaxDetachedProvision == 1

\* Tests in a verification run
MaxTests == 4

(* Program constants *)

MinPasswordLength == 8

LastStep == 7

VerificationStepIndex == 6

\* maxlength of the NetBIOS input
MaxNetbiosLength == 15

-----------------------------------------------------------------------------
(* Values *)

Steps == 0..LastStep

DomainNames == {"example.com", "corp.test"}

Realms == {"EXAMPLE.COM", "CORP.TEST"}

Passwords == {"", "short", "Str0ngPass1!"}

\* Long enough, and lowercase letters only
WeakPasswords == {"password"}

\* DNS names whose first label is longer than a NetBIOS name may be
LongDomainNames == {"directory-services.test"}

\* What the NetBIOS input is given
NetbiosNames == {"", "EXAMPLE", "CORP", "DIRECTORY-SERVICES"}

ProvisionStatuses == {"completed", "failed", "in_progress"}

OverallStatuses == {"passed", "partial", "failed"}

\* String.prototype.toUpperCase on the strings of the model
toUpperCase(s) ==
    CASE s = "example.com" -> "EXAMPLE.COM"
      [] s = "corp.test"   -> "CORP.TEST"
      [] s = "example"     -> "EXAMPLE"
      [] s = "corp"        -> "CORP"
      [] s = "directory-services.test" -> "DIRECTORY-SERVICES.TEST"
      [] s = "directory-services"      -> "DIRECTORY-SERVICES"
      [] OTHER             -> s

\* String.prototype.toLowerCase on the strings of the model
toLowerCase(s) ==
    CASE s = "EXAMPLE.COM" -> "example.com"
      [] s = "CORP.TEST"   -> "corp.test"
      [] s = "DIRECTORY-SERVICES.TEST" -> "directory-services.test"
      [] OTHER             -> s

\* s.split('.')[0] on the strings of the model
firstPart(s) ==
    CASE s = "example.com" -> "example"
      [] s = "corp.test"   -> "corp"
      [] s = "directory-services.test" -> "directory-services"
      [] OTHER             -> s

defaultDomainConfig ==
    [realm |-> "EXAMPLE.COM", domain |-> "EXAMPLE", domain_name |-> "example.com",
     admin_password |-> ""]

\* PrerequisiteCheck.status
CheckStatuses == {"passed", "warning", "failed"}

\* The battery of prerequisite checks
CheckNames == {"samba_tool", "privilege", "existing_domain", "disk_space", "network"}

\* No battery has run yet
noBattery == [pc |-> "idle", checks |-> [c \in CheckNames |-> "pending"],
              all_passed |-> FALSE]

\* VerificationTest.status of a test that has ended
TestStatuses == {"passed", "failed", "skipped"}

\* No navigation is pending
noNavigation == [to |-> "none", origin |-> "none", pc |-> "idle"]

\* The auth store as constructed, with the token that localStorage holds;
\* finished is the origin of the last navigation the router ended
newSession(stored) ==
    [route |-> "none", finished |-> "none", nav |-> noNavigation,
     token |-> stored, user |-> "null",
     setupStatus |-> "null", stored |-> stored, loading |-> FALSE, error |-> FALSE,
     loginPc |-> "idle", loginResult |-> "none", logouts |-> 0, loggingOut |-> FALSE,
     logoutFailed |-> FALSE]

\* /setup is shown: the first navigation found the setup not completed, or,
\* on a host with a domain, could not fetch the setup status
sessionOnSetup(domain) ==
    [newSession("null") EXCEPT !.route = "/setup", !.finished = "load",
                               !.setupStatus = IF domain = "none" THEN "not_completed"
                                               ELSE "null"]

\* No verification run has been made yet
noRun == [pc |-> "idle", tests |-> <<>>, total_tests |-> 0, passed |-> 0,
          failed |-> 0, skipped |-> 0, overall_status |-> "null"]

-----------------------------------------------------------------------------
(* Tasks: the requests in flight, each with the handler waiting for it *)

Owners == {"wizard", "prereq", "provision", "verification", "modal"}

\* A task: the component and handler position waiting for a request, what
\* started the handler, whether the component is still mounted, and a
\* number telling equal tasks apart
Task(o, p, g) == [owner |-> o, pc |-> p, origin |-> g, live |-> TRUE, dup |-> 0]

NoTasks == {}

Same(u, d) ==
    u.owner = d.owner /\ u.pc = d.pc /\ u.origin = d.origin /\ u.live = d.live

Count(tk, d) == Cardinality({u \in tk : Same(u, d)})

NumTasks(tk) == Cardinality(tk)

InFlight(tk, p) == Cardinality({t \in tk : t.pc = p})

AddTask(tk, d) == tk \cup {[d EXCEPT !.dup = Count(tk, d) + 1]}

RemoveTask(tk, t) == tk \ {t}

\* Unmounting a component: its tasks go on, detached from the refs
Orphan(tk, o) ==
    {t \in tk : t.owner # o \/ ~t.live}
    \cup {[t EXCEPT !.live = FALSE,
                    !.dup = t.dup + Count(tk, [t EXCEPT !.live = FALSE])] :
            t \in {u \in tk : u.owner = o /\ u.live}}

-----------------------------------------------------------------------------
(* The wizard's state as one record, so that a handler is a function from   *)
(* state to state and handlers compose the way the code calls them.  A      *)
(* handler starts with nothing written to the console.                      *)

St ==
    [currentStep |-> currentStep, setupStatus |-> setupStatus,
     prerequisites |-> prerequisites, verificationResults |-> verificationResults,
     provisionResponse |-> provisionResponse, loading |-> loading, error |-> error,
     domainConfig |-> domainConfig, showExistingDomainModal |-> showExistingDomainModal,
     resetting |-> resetting, checking |-> checking, confirmPassword |-> confirmPassword,
     provisioning |-> provisioning, running |-> running, needsPassword |-> needsPassword,
     adminPassword |-> adminPassword, tasks |-> tasks, timers |-> timers,
     hostDomain |-> hostDomain, consoleLog |-> {},
     provisionedSinceReset |-> provisionedSinceReset]

\* The next state is n; the bounds of the model cut the run off where they are hit
Set(n) ==
    /\ NumTasks(n.tasks) <= MaxTasks
    /\ Cardinality({t \in n.tasks : ~t.live /\ t.pc # "provision"}) <= MaxDetached
    /\ Cardinality({t \in n.tasks : ~t.live /\ t.pc = "provision"}) <= MaxDetachedProvision
    /\ n.timers <= MaxTimers
    /\ currentStep' = n.currentStep
    /\ setupStatus' = n.setupStatus
    /\ prerequisites' = n.prerequisites
    /\ verificationResults' = n.verificationResults
    /\ provisionResponse' = n.provisionResponse
    /\ loading' = n.loading
    /\ error' = n.error
    /\ domainConfig' = n.domainConfig
    /\ showExistingDomainModal' = n.showExistingDomainModal
    /\ resetting' = n.resetting
    /\ checking' = n.checking
    /\ confirmPassword' = n.confirmPassword
    /\ provisioning' = n.provisioning
    /\ running' = n.running
    /\ needsPassword' = n.needsPassword
    /\ adminPassword' = n.adminPassword
    /\ tasks' = n.tasks
    /\ timers' = n.timers
    /\ hostDomain' = n.hostDomain
    /\ consoleLog' = n.consoleLog
    /\ provisionedSinceReset' = n.provisionedSinceReset
    /\ UNCHANGED <<resetVars, engineVars, sessionVars>>

-----------------------------------------------------------------------------
(* stores/setup.ts *)

isProvisioned(s) == s.setupStatus = "yes"

canProceed(s) ==
    IF s.currentStep = 1 THEN s.prerequisites = "pass" ELSE TRUE

\* A store action up to its await: loading.value = true; error.value = null
storeBegin(s) == [s EXCEPT !.loading = TRUE, !.error = FALSE]

storeThrowKeepsLoading(s) == [s EXCEPT !.error = TRUE]

\* A store action's catch and finally: error.value = message; loading.value = false
storeThrow(s) == [s EXCEPT !.error = TRUE, !.loading = FALSE]

checkStatus(s, t) == [storeBegin(s) EXCEPT !.tasks = AddTask(@, t)]

checkStatusReturn(s, resp) == [s EXCEPT !.setupStatus = resp, !.loading = FALSE]

checkPrerequisites(s, t) == [storeBegin(s) EXCEPT !.tasks = AddTask(@, t)]

checkPrerequisitesReturn(s, resp) == [s EXCEPT !.prerequisites = resp, !.loading = FALSE]

provisionDomain(s, t) ==
    [storeBegin(s) EXCEPT !.tasks = AddTask(@, t), !.provisionedSinceReset = TRUE]

provisionDomainReturn(s, resp) == [s EXCEPT !.provisionResponse = resp, !.loading = FALSE]

runVerificationTests(s, t) == [storeBegin(s) EXCEPT !.tasks = AddTask(@, t)]

runVerificationTestsReturn(s, resp) ==
    [s EXCEPT !.verificationResults = resp, !.loading = FALSE]

nextStepUnbounded(s) == [s EXCEPT !.currentStep = @ + 1]

nextStep(s) ==
    IF s.currentStep < LastStep THEN [s EXCEPT !.currentStep = @ + 1] ELSE s

previousStep(s) ==
    IF s.currentStep > 0 THEN [s EXCEPT !.currentStep = @ - 1] ELSE s

goToStepAndForget(s, step) ==
    [s EXCEPT !.currentStep = step, !.prerequisites = "null"]

goToStep(s, step) == [s EXCEPT !.currentStep = step]

resetWizardAndPassword(s) ==
    [s EXCEPT !.currentStep = 0, !.prerequisites = "null",
              !.verificationResults = "null", !.provisionResponse = "null",
              !.error = FALSE, !.domainConfig.admin_password = ""]

resetWizard(s) ==
    [s EXCEPT !.currentStep = 0, !.prerequisites = "null",
              !.verificationResults = "null", !.provisionResponse = "null",
              !.error = FALSE]

skipToVerification(s) == [s EXCEPT !.currentStep = VerificationStepIndex]

\* resetDomain up to its first await (setupApi.resetDomain)
resetDomain(s, t) == [storeBegin(s) EXCEPT !.tasks = AddTask(@, t)]

\* resetDomain after setupApi.resetDomain returned: await checkStatus()
resetDomainRefresh(s, t) == checkStatus(s, t)

\* resetDomain after checkStatus returned: resetWizard(); return; finally
resetDomainFinish(s) ==
    [resetWizard(s) EXCEPT !.loading = FALSE, !.provisionedSinceReset = FALSE]

-----------------------------------------------------------------------------
(* PrerequisitesStep.vue *)

\* runChecks up to its await
runChecks(s) ==
    checkPrerequisites([s EXCEPT !.checking = TRUE], Task("prereq", "check", "click"))

onMountedPrerequisites(s) ==
    IF s.prerequisites = "null" THEN runChecks(s) ELSE s

-----------------------------------------------------------------------------
(* DomainConfigStep.vue *)

passwordsMatch(s) == s.domainConfig.admin_password = s.confirmPassword

isValid(s) ==
    /\ Len(s.domainConfig.realm) > 0
    /\ Len(s.domainConfig.domain) > 0
    /\ Len(s.domainConfig.domain_name) > 0
    /\ Len(s.domainConfig.admin_password) >= MinPasswordLength
    /\ passwordsMatch(s)

autofillFromDomain(s) ==
    IF s.domainConfig.domain_name # ""
    THEN LET parts0 == firstPart(s.domainConfig.domain_name)
         IN  [s EXCEPT !.domainConfig.realm = toUpperCase(s.domainConfig.domain_name),
                       !.domainConfig.domain =
                           toUpperCase(IF parts0 # "" THEN parts0
                                       ELSE s.domainConfig.domain_name)]
    ELSE s

-----------------------------------------------------------------------------
(* ProvisionStep.vue *)

\* startProvisioning up to its await
startProvisioning(s) ==
    provisionDomain([s EXCEPT !.provisioning = TRUE],
                    Task("provision", "provision", "click"))

onMountedProvision(s) ==
    IF isProvisioned(s) THEN s ELSE startProvisioning(s)

\* startProvisioning after provisionDomain returned resp
startProvisioningReturn(s, resp) ==
    [provisionDomainReturn(s, resp) EXCEPT
        !.timers = IF resp = "completed" THEN @ + 1 ELSE @,
        !.provisioning = FALSE]

\* startProvisioning after provisionDomain threw
startProvisioningThrow(s) == [storeThrow(s) EXCEPT !.provisioning = FALSE]

-----------------------------------------------------------------------------
(* VerificationStep.vue *)

\* What console.log / console.error received, by the data it was computed from
ConfigFields == {"realm", "domain_name", "domain"}

\* The error a failed request rejects with carries the request, body included
requestError(body) == {"error"} \cup body

verifyRequestBody == ConfigFields \cup {"admin_password"}

log(s, what) == [s EXCEPT !.consoleLog = @ \cup what]

needsFetch(s) ==
    \/ s.domainConfig.domain_name = "example.com"
    \/ s.domainConfig.realm = "EXAMPLE.COM"

passwordCheckEmptyOnly(s) ==
    [s EXCEPT !.needsPassword = s.domainConfig.admin_password = ""]

\* checkAndPrepareConfig, lines 97-102 and 110-115
passwordCheck(s) ==
    [s EXCEPT !.needsPassword =
        Len(s.domainConfig.admin_password) < MinPasswordLength]

\* checkAndPrepareConfig reaches `await setupApi.getDomainInfo()`
configAwaitsDomainInfo(s) == isProvisioned(s) /\ needsFetch(s)

\* checkAndPrepareConfig on the paths that await nothing
checkAndPrepareConfig(s) == passwordCheck(s)

\* checkAndPrepareConfig after getDomainInfo returned info
checkAndPrepareConfigReturn(s, info) ==
    LET s1 == log(s, {"domainInfo"})
        s2 == IF info.Forest # ""
              THEN log([s1 EXCEPT !.domainConfig.realm = toUpperCase(info.Forest),
                                  !.domainConfig.domain_name = toLowerCase(info.Forest)],
                       {"realm", "domain_name"})
              ELSE s1
        s3 == IF info.Domain # ""
              THEN log([s2 EXCEPT !.domainConfig.domain_name = toLowerCase(info.Domain)],
                       {"domain_name"})
              ELSE s2
        s4 == IF info.Netbios # ""
              THEN log([s3 EXCEPT !.domainConfig.domain = toUpperCase(info.Netbios)],
                       {"domain"})
              ELSE s3
    IN  passwordCheck(s4)

\* checkAndPrepareConfig after getDomainInfo threw (a GET: no request body)
checkAndPrepareConfigThrow(s) ==
    [log(s, requestError({})) EXCEPT !.needsPassword = TRUE]

\* runTests after `await checkAndPrepareConfig()`, up to its await
runTestsChecked(s, origin) ==
    IF Len(s.domainConfig.admin_password) < MinPasswordLength
    THEN [s EXCEPT !.needsPassword = TRUE]
    ELSE IF needsFetch(s)
    THEN s
    ELSE runVerificationTests([s EXCEPT !.running = TRUE],
                              Task("verification", "verify", origin))

\* runTests up to its first await
runTests(s, origin) ==
    IF configAwaitsDomainInfo(s)
    THEN [s EXCEPT !.tasks = AddTask(@, Task("verification", "info2", origin))]
    ELSE runTestsChecked(checkAndPrepareConfig(s), origin)

\* runTests after runVerificationTests returned resp
runTestsReturn(s, resp) ==
    [runVerificationTestsReturn(s, resp) EXCEPT !.running = FALSE]

\* runTests after runVerificationTests threw: console.error(..., error)
runTestsThrow(s) ==
    [log(storeThrow(s), requestError(verifyRequestBody)) EXCEPT !.running = FALSE]

\* onMounted up to its await (checkStatus)
onMountedVerification(s) ==
    checkStatus(log(s, {"isProvisioned"} \cup ConfigFields),
                Task("verification", "status", "mount"))

\* onMounted after `await checkAndPrepareConfig()`
onMountedVerificationChecked(s) ==
    IF s.verificationResults = "null" /\ ~s.needsPassword
    THEN runTests(s, "mount")
    ELSE s

\* onMounted after checkStatus returned resp
onMountedVerificationReturn(s, resp) ==
    LET s1 == log(checkStatusReturn(s, resp), {"isProvisioned"})
    IN  IF configAwaitsDomainInfo(s1)
        THEN [s1 EXCEPT !.tasks = AddTask(@, Task("verification", "info1", "mount"))]
        ELSE onMountedVerificationChecked(checkAndPrepareConfig(s1))

submitPassword(s) ==
    IF Len(s.adminPassword) < MinPasswordLength
    THEN s
    ELSE runTests([s EXCEPT !.domainConfig.admin_password = s.adminPassword,
                            !.needsPassword = FALSE], "prompt")

-----------------------------------------------------------------------------
(* ExistingDomainModal.vue *)

closeModal(s) ==
    [s EXCEPT !.showExistingDomainModal = FALSE, !.resetting = FALSE,
              !.tasks = IF s.showExistingDomainModal THEN Orphan(@, "modal") ELSE @]

handleSkip(s) == closeModal(skipToVerification(s))

\* handleReset up to its await
handleReset(s) ==
    resetDomain([s EXCEPT !.resetting = TRUE], Task("modal", "reset", "click"))

\* handleReset after resetDomain returned: emit('close'); resetting = false
\* (an unmounted component emits nothing)
handleResetReturn(s, t) ==
    IF t.live THEN closeModal(resetDomainFinish(s)) ELSE resetDomainFinish(s)

\* handleReset after resetDomain threw
handleResetThrow(s) == [storeThrow(s) EXCEPT !.resetting = FALSE]

-----------------------------------------------------------------------------
(* SetupWizard.vue: <component :is="currentStepComponent"> *)

components ==
    <<"WelcomeStep", "PrerequisitesStep", "DomainConfigStep", "DNSConfigStep",
      "ReviewStep", "ProvisionStep", "VerificationStep", "CompleteStep">>

\* components[setupStore.currentStep], indices counted from 0
currentStepComponent(s) ==
    IF s.currentStep + 1 \in DOMAIN components
    THEN components[s.currentStep + 1]
    ELSE "undefined"

StepOwner(step) ==
    CASE step = 1 -> "prereq"
      [] step = 5 -> "provision"
      [] step = VerificationStepIndex -> "verification"
      [] OTHER -> "none"

\* The refs of the step components, as a component's setup() creates them
freshRefs(s) ==
    [s EXCEPT !.checking = FALSE, !.confirmPassword = "", !.provisioning = FALSE,
              !.running = FALSE, !.needsPassword = FALSE, !.adminPassword = ""]

onMounted(s) ==
    CASE s.currentStep = 1 -> onMountedPrerequisites(s)
      [] s.currentStep = 5 -> onMountedProvision(s)
      [] s.currentStep = VerificationStepIndex -> onMountedVerification(s)
      [] OTHER -> s

\* After a handler: when currentStep changed, the old step component is
\* unmounted and the new one is created and mounted
Render(oldStep, n) ==
    IF n.currentStep = oldStep THEN n
    ELSE onMounted(freshRefs([n EXCEPT !.tasks = Orphan(@, StepOwner(oldStep))]))

\* A continuation of a task whose component is gone: its writes to the
\* component's refs are lost, and the requests it sends are detached too
Detached(t, s, n) ==
    IF t.live THEN n
    ELSE [n EXCEPT !.checking = s.checking, !.provisioning = s.provisioning,
                   !.running = s.running, !.needsPassword = s.needsPassword,
                   !.resetting = s.resetting,
                   !.tasks = (n.tasks \cap s.tasks)
                             \cup {[u EXCEPT !.live = FALSE,
                                      !.dup = 1 + Count(s.tasks, [u EXCEPT !.live = FALSE])] :
                                   u \in n.tasks \ s.tasks}]

\* SetupWizard onMounted after checkStatus returned resp
onMountedWizardReturn(s, resp) ==
    LET s1 == checkStatusReturn(s, resp)
    IN  IF isProvisioned(s1) /\ s1.currentStep = 0
        THEN [s1 EXCEPT !.showExistingDomainModal = TRUE]
        ELSE s1

-----------------------------------------------------------------------------
(* Initial state: the store as constructed, SetupWizard mounted on the      *)
(* Welcome step with its onMounted checkStatus() in flight.                 *)

InitialHostDomains == {"none", "corp.test"}

\* What a domain consists of on the host: configuration files and the
\* directory database
DomainFiles == {"smb.conf", "krb5.conf", "sam.ldb"}

\* The files of a host with domain d, before any reset
hostFiles(d) == [live |-> IF d = "none" THEN {} ELSE DomainFiles,
                 backup |-> {}, kept |-> 0]

InitWizard ==
    /\ currentStep = 0
    /\ setupStatus = "null"
    /\ prerequisites = "null"
    /\ verificationResults = "null"
    /\ provisionResponse = "null"
    /\ loading = TRUE
    /\ error = FALSE
    /\ domainConfig = defaultDomainConfig
    /\ showExistingDomainModal = FALSE
    /\ resetting = FALSE
    /\ checking = FALSE
    /\ confirmPassword = ""
    /\ provisioning = FALSE
    /\ running = FALSE
    /\ needsPassword = FALSE
    /\ adminPassword = ""
    /\ tasks = AddTask(NoTasks, Task("wizard", "status", "mount"))
    /\ timers = 0
    /\ hostDomain \in InitialHostDomains
    /\ consoleLog = {}
    /\ provisionedSinceReset = FALSE
    /\ host = hostFiles(hostDomain)
    /\ resetPc = "idle"
    /\ battery = noBattery
    /\ run = noRun

\* The page was loaded with no token stored and the first navigation ended
\* on /setup
Init == InitWizard /\ session = sessionOnSetup(hostDomain)

\* A handler ran from state St to n; the view re-renders
Act(n) == Set(Render(currentStep, n))

Taken(t) == [St EXCEPT !.tasks = RemoveTask(@, t)]

\* The continuation of task t ran from St (t taken off) to n
Cont(t, n) == Set(Render(currentStep, Detached(t, Taken(t), n)))

\* Equal tasks are interchangeable: the one numbered last answers first
Waiting(o, p) ==
    {t \in tasks : t.owner = o /\ t.pc = p /\ t.dup = Count(tasks, t)}

\* The modal's overlay covers the page: nothing under it can be clicked
Clickable == ~showExistingDomainModal

\* GET /setup/status on the host
getStatus == IF hostDomain = "none" THEN "no" ELSE "yes"

-----------------------------------------------------------------------------
(* User actions *)

WelcomeGetStarted ==
    /\ currentStep = 0 /\ Clickable
    /\ Act(nextStep(St))

WelcomeSkip ==
    /\ currentStep = 0 /\ Clickable /\ isProvisioned(St)
    /\ Act(skipToVerification(St))

\* "View Options" of the banner, "View All Options" of the Welcome step and
\* "Reset Configuration" of the Provision step all open the modal
ViewOptions ==
    /\ currentStep < VerificationStepIndex /\ Clickable /\ isProvisioned(St)
    /\ Act([St EXCEPT !.showExistingDomainModal = TRUE])

PrerequisitesBack ==
    /\ currentStep = 1 /\ Clickable
    /\ Act(previousStep(St))

PrerequisitesRecheck ==
    /\ currentStep = 1 /\ Clickable /\ ~checking
    /\ Act(runChecks(St))

PrerequisitesContinue ==
    /\ currentStep = 1 /\ Clickable /\ canProceed(St) /\ ~checking
    /\ Act(nextStep(St))

\* Typing a DNS domain name and leaving the field (@blur)
typeDomainName(names) ==
    /\ currentStep = 2 /\ Clickable
    /\ \E d \in names :
        /\ d # domainConfig.domain_name
        /\ Act(autofillFromDomain([St EXCEPT !.domainConfig.domain_name = d]))

EditDomainName == typeDomainName(DomainNames)

\* Typing a NetBIOS domain name: the input takes at most maxlength characters
typeNetbiosDomain(names) ==
    /\ currentStep = 2 /\ Clickable
    /\ \E d \in names :
        /\ Len(d) <= MaxNetbiosLength
        /\ d # domainConfig.domain
        /\ Act([St EXCEPT !.domainConfig.domain = d])

EditRealm ==
    /\ currentStep = 2 /\ Clickable
    /\ \E r \in Realms :
        /\ r # domainConfig.realm
        /\ Act([St EXCEPT !.domainConfig.realm = r])

typeAdminPassword(passwords) ==
    /\ currentStep = 2 /\ Clickable
    /\ \E p \in passwords :
        /\ p # domainConfig.admin_password
        /\ Act([St EXCEPT !.domainConfig.admin_password = p])

EditAdminPassword == typeAdminPassword(Passwords)

typeConfirmPassword(passwords) ==
    /\ currentStep = 2 /\ Clickable
    /\ \E p \in passwords :
        /\ p # confirmPassword
        /\ Act([St EXCEPT !.confirmPassword = p])

EditConfirmPassword == typeConfirmPassword(Passwords)

DomainConfigBack ==
    /\ currentStep = 2 /\ Clickable
    /\ Act(previousStep(St))

DomainConfigContinue ==
    /\ currentStep = 2 /\ Clickable /\ isValid(St)
    /\ Act(nextStep(St))

DNSConfigBack ==
    /\ currentStep = 3 /\ Clickable
    /\ Act(previousStep(St))

DNSConfigContinue ==
    /\ currentStep = 3 /\ Clickable
    /\ Act(nextStep(St))

ReviewEdit ==
    /\ currentStep = 4 /\ Clickable
    /\ Act(goToStep(St, 2))

ReviewProvision ==
    /\ currentStep = 4 /\ Clickable
    /\ Act(nextStep(St))

ProvisionSkip ==
    /\ currentStep = 5 /\ Clickable /\ isProvisioned(St) /\ ~provisioning
    /\ Act(skipToVerification(St))

ProvisionGoBack ==
    /\ currentStep = 5 /\ Clickable /\ ~provisioning /\ provisionResponse = "failed"
    /\ Act(previousStep(St))

ProvisionRetry ==
    /\ currentStep = 5 /\ Clickable /\ ~provisioning /\ provisionResponse = "failed"
    /\ Act(startProvisioning(St))

ProvisionContinue ==
    /\ currentStep = 5 /\ Clickable /\ ~provisioning /\ provisionResponse = "completed"
    /\ Act(nextStep(St))

VerificationTypePassword ==
    /\ currentStep = VerificationStepIndex /\ Clickable /\ needsPassword
    /\ \E p \in Passwords :
        /\ p # adminPassword
        /\ Act([St EXCEPT !.adminPassword = p])

VerificationSubmit ==
    /\ currentStep = VerificationStepIndex /\ Clickable /\ needsPassword
    /\ Len(adminPassword) >= MinPasswordLength
    /\ Act(submitPassword(St))

VerificationRunAgain ==
    /\ currentStep = VerificationStepIndex /\ Clickable /\ ~running
    /\ Act(runTests(St, "click"))

VerificationContinue ==
    /\ currentStep = VerificationStepIndex /\ Clickable /\ ~running
    /\ Act(nextStep(St))

CompleteRunAgain ==
    /\ currentStep = LastStep /\ Clickable
    /\ Act(resetWizard(St))

ModalSkip ==
    /\ showExistingDomainModal /\ ~resetting
    /\ Act(handleSkip(St))

ModalReset ==
    /\ showExistingDomainModal /\ ~resetting
    /\ Act(handleReset(St))

\* A click on the overlay: emit('close')
ModalClose ==
    /\ showExistingDomainModal
    /\ Act(closeModal(St))

\* The auto-advance timeout set by startProvisioning fires
AutoAdvance ==
    /\ timers > 0
    /\ Act(nextStep([St EXCEPT !.timers = @ - 1]))

-----------------------------------------------------------------------------
(* Responses: the continuation of the handler that awaits the request *)

WizardStatusReturn ==
    \E t \in Waiting("wizard", "status") :
        Cont(t, onMountedWizardReturn(Taken(t), getStatus))

WizardStatusThrow ==
    \E t \in Waiting("wizard", "status") :
        Cont(t, storeThrow(Taken(t)))

PrerequisitesReturn ==
    \E t \in Waiting("prereq", "check"), resp \in {"pass", "fail"} :
        Cont(t, [checkPrerequisitesReturn(Taken(t), resp) EXCEPT !.checking = FALSE])

PrerequisitesThrow ==
    \E t \in Waiting("prereq", "check") :
        Cont(t, [storeThrow(Taken(t)) EXCEPT !.checking = FALSE])

\* POST /setup/provision on the host: over an existing domain it fails; a
\* completed provision leaves the configured domain on the host
ProvisionOutcomes == IF hostDomain = "none" THEN ProvisionStatuses ELSE {"failed"}

ProvisionReturn ==
    \E t \in Waiting("provision", "provision"), resp \in ProvisionOutcomes :
        Cont(t, [startProvisioningReturn(Taken(t), resp) EXCEPT
                    !.hostDomain = IF resp = "completed"
                                   THEN domainConfig.domain_name ELSE @])

ProvisionThrow ==
    \E t \in Waiting("provision", "provision") :
        Cont(t, startProvisioningThrow(Taken(t)))

VerificationStatusReturn ==
    \E t \in Waiting("verification", "status") :
        Cont(t, onMountedVerificationReturn(Taken(t), getStatus))

\* checkStatus rethrows and onMounted does not catch: the rest of it never runs
VerificationStatusThrow ==
    \E t \in Waiting("verification", "status") :
        Cont(t, storeThrow(Taken(t)))

\* GET /setup/domain-info on the host; Netbios is the 'Netbios domain' entry
getDomainInfo ==
    [Forest |-> hostDomain, Domain |-> hostDomain,
     Netbios |-> toUpperCase(firstPart(hostDomain))]

MountDomainInfoReturn ==
    /\ hostDomain # "none"
    /\ \E t \in Waiting("verification", "info1") :
        Cont(t, onMountedVerificationChecked(
                    checkAndPrepareConfigReturn(Taken(t), getDomainInfo)))

MountDomainInfoThrow ==
    \E t \in Waiting("verification", "info1") :
        Cont(t, onMountedVerificationChecked(checkAndPrepareConfigThrow(Taken(t))))

RunTestsDomainInfoReturn ==
    /\ hostDomain # "none"
    /\ \E t \in Waiting("verification", "info2") :
        Cont(t, runTestsChecked(
                    checkAndPrepareConfigReturn(Taken(t), getDomainInfo), t.origin))

RunTestsDomainInfoThrow ==
    \E t \in Waiting("verification", "info2") :
        Cont(t, runTestsChecked(checkAndPrepareConfigThrow(Taken(t)), t.origin))

VerifyReturn ==
    \E t \in Waiting("verification", "verify"), resp \in OverallStatuses :
        Cont(t, runTestsReturn(Taken(t), resp))

VerifyThrow ==
    \E t \in Waiting("verification", "verify") :
        Cont(t, runTestsThrow(Taken(t)))

\* POST /setup/reset on the host returned {success, message}; resetDomain
\* keeps it in `result` while it awaits checkStatus()
ModalResetReturn ==
    \E t \in Waiting("modal", "reset"), success \in BOOLEAN :
        Cont(t, resetDomainRefresh(
                    [Taken(t) EXCEPT !.hostDomain = IF success THEN "none" ELSE @],
                    Task("modal", "status", IF success THEN "success" ELSE "refused")))

ModalResetThrow ==
    \E t \in Waiting("modal", "reset") :
        Cont(t, handleResetThrow(Taken(t)))

ModalStatusReturn ==
    \E t \in Waiting("modal", "status") :
        Cont(t, handleResetReturn(checkStatusReturn(Taken(t), getStatus), t))

\* checkStatus rethrows into resetDomain's catch, which rethrows into handleReset's
ModalStatusThrow ==
    \E t \in Waiting("modal", "status") :
        Cont(t, handleResetThrow(storeThrow(Taken(t))))

-----------------------------------------------------------------------------

Next ==
    \/ WelcomeGetStarted \/ WelcomeSkip \/ ViewOptions
    \/ PrerequisitesBack \/ PrerequisitesRecheck \/ PrerequisitesContinue
    \/ EditDomainName \/ EditRealm \/ EditAdminPassword \/ EditConfirmPassword
    \/ DomainConfigBack \/ DomainConfigContinue
    \/ DNSConfigBack \/ DNSConfigContinue
    \/ ReviewEdit \/ ReviewProvision
    \/ ProvisionSkip \/ ProvisionGoBack \/ ProvisionRetry \/ ProvisionContinue
    \/ VerificationTypePassword \/ VerificationSubmit
    \/ VerificationRunAgain \/ VerificationContinue
    \/ CompleteRunAgain
    \/ ModalSkip \/ ModalReset \/ ModalClose
    \/ AutoAdvance
    \/ WizardStatusReturn \/ WizardStatusThrow
    \/ PrerequisitesReturn \/ PrerequisitesThrow
    \/ ProvisionReturn \/ ProvisionThrow
    \/ VerificationStatusReturn \/ VerificationStatusThrow
    \/ MountDomainInfoReturn \/ MountDomainInfoThrow
    \/ RunTestsDomainInfoReturn \/ RunTestsDomainInfoThrow
    \/ VerifyReturn \/ VerifyThrow
    \/ ModalResetReturn \/ ModalResetThrow
    \/ ModalStatusReturn \/ ModalStatusThrow

Spec == Init /\ [][Next]_vars

-----------------------------------------------------------------------------
(* The wizard from Welcome to the provisioning request, with more of what   *)
(* the Domain Configuration form can be given.                              *)

FormDomainName == typeDomainName(DomainNames \cup LongDomainNames)

FormNetbiosDomain == typeNetbiosDomain(NetbiosNames)

FormAdminPassword == typeAdminPassword(Passwords \cup WeakPasswords)

FormConfirmPassword == typeConfirmPassword(Passwords \cup WeakPasswords)

NextConfigure ==
    \/ WelcomeGetStarted
    \/ WizardStatusReturn
    \/ PrerequisitesReturn \/ PrerequisitesContinue
    \/ FormDomainName \/ FormNetbiosDomain \/ EditRealm
    \/ FormAdminPassword \/ FormConfirmPassword
    \/ DomainConfigBack \/ DomainConfigContinue
    \/ DNSConfigBack \/ DNSConfigContinue
    \/ ReviewEdit \/ ReviewProvision

SpecConfigure == Init /\ [][NextConfigure]_vars

-----------------------------------------------------------------------------
(* Domain Reset on the host: resetDomain() -> {success, message}.  Each     *)
(* reset writes to a new timestamped backup location; host.backup is the    *)
(* content of the newest one, host.kept counts the complete earlier ones.   *)
(* Every sub-step can fail where it stands.                                  *)

domainPresent(h) == h.live = DomainFiles

backupPresent(h) == h.backup = DomainFiles

\* a verification that accepts whatever the copy left
backupVerifiedAny(h) == h.backup \subseteq h.live

\* verify backup: the backup location holds everything the live domain holds
backupVerified(h) == h.live \subseteq h.backup

\* resetDomain() is called on a host with an existing domain
hostResetStart ==
    /\ resetPc = "idle"
    /\ domainPresent(host)
    /\ host.kept + (IF backupPresent(host) THEN 1 ELSE 0) <= MaxBackups
    /\ host' = [host EXCEPT !.backup = {},
                            !.kept = @ + (IF backupPresent(host) THEN 1 ELSE 0)]
    /\ resetPc' = "backup"
    /\ UNCHANGED <<wizardVars, engineVars, sessionVars>>

\* backup: one more file is copied to the backup location
hostBackupFile ==
    /\ resetPc = "backup"
    /\ \E f \in host.live \ host.backup :
          host' = [host EXCEPT !.backup = @ \cup {f}]
    /\ UNCHANGED <<resetPc, wizardVars, engineVars, sessionVars>>

\* backup: the copy ends, having copied what it has copied
hostBackupEnd ==
    /\ resetPc = "backup"
    /\ resetPc' = "verify"
    /\ UNCHANGED <<host, wizardVars, engineVars, sessionVars>>

\* backup: the copy fails; the reset aborts
hostBackupFail ==
    /\ resetPc = "backup"
    /\ resetPc' = "failed"
    /\ UNCHANGED <<host, wizardVars, engineVars, sessionVars>>

\* verify backup: removal starts only if the backup is complete;
\* otherwise the reset aborts before removal
hostVerifyBackup ==
    /\ resetPc = "verify"
    /\ resetPc' = IF backupVerified(host) THEN "remove" ELSE "failed"
    /\ UNCHANGED <<host, wizardVars, engineVars, sessionVars>>

\* verify backup: the verification itself fails; the reset aborts
hostVerifyFail ==
    /\ resetPc = "verify"
    /\ resetPc' = "failed"
    /\ UNCHANGED <<host, wizardVars, engineVars, sessionVars>>

\* remove: one more file of the live configuration is removed
hostRemoveFile ==
    /\ resetPc = "remove"
    /\ \E f \in host.live : host' = [host EXCEPT !.live = @ \ {f}]
    /\ UNCHANGED <<resetPc, wizardVars, engineVars, sessionVars>>

\* remove: the removal fails where it stands
hostRemoveFail ==
    /\ resetPc = "remove"
    /\ host.live # {}
    /\ resetPc' = "failed"
    /\ UNCHANGED <<host, wizardVars, engineVars, sessionVars>>

\* remove: nothing is left of the live configuration
hostRemoveEnd ==
    /\ resetPc = "remove"
    /\ host.live = {}
    /\ resetPc' = "done"
    /\ UNCHANGED <<host, wizardVars, engineVars, sessionVars>>

\* resetDomain() returns {success, message} to its caller
hostResetReturn ==
    /\ resetPc \in {"done", "failed"}
    /\ resetPc' = "idle"
    /\ UNCHANGED <<host, wizardVars, engineVars, sessionVars>>

\* a fresh Provision on the host that the reset has cleared
hostProvision ==
    /\ resetPc = "idle"
    /\ host.live = {}
    /\ host' = [host EXCEPT !.live = DomainFiles]
    /\ UNCHANGED <<resetPc, wizardVars, engineVars, sessionVars>>

InitReset == Init /\ hostDomain # "none"

NextReset ==
    \/ hostResetStart
    \/ hostBackupFile
    \/ hostBackupEnd
    \/ hostBackupFail
    \/ hostVerifyBackup
    \/ hostVerifyFail
    \/ hostRemoveFile
    \/ hostRemoveFail
    \/ hostRemoveEnd
    \/ hostResetReturn
    \/ hostProvision

SpecReset == InitReset /\ [][NextReset]_vars

-----------------------------------------------------------------------------
(* Prerequisites on the host: getPrerequisites() -> {all_passed, checks[]}. *)
(* A fixed battery of checks, run in any order; a check that crashes is a   *)
(* failed result of that check only.                                        *)

all_passedStrict(checks) == \A c \in DOMAIN checks : checks[c] = "passed"

all_passed(checks) == \A c \in DOMAIN checks : checks[c] # "failed"

\* Existing-domain detection reports a warning, not a failure
existingDomainCheck(h) == IF domainPresent(h) THEN "warning" ELSE "passed"

\* What a check that ran to its end may report
checkOutcomes(c) ==
    IF c = "existing_domain" THEN {existingDomainCheck(host)} ELSE CheckStatuses

\* The response as the store keeps it (prerequisites.all_passed)
prerequisitesResponse(b) == IF b.all_passed THEN "pass" ELSE "fail"

\* Results are recomputed on each invocation
checkPrerequisitesStart ==
    /\ battery.pc # "running"
    /\ battery' = [noBattery EXCEPT !.pc = "running"]
    /\ UNCHANGED <<wizardVars, resetVars, run, sessionVars>>

checkRuns ==
    /\ battery.pc = "running"
    /\ \E c \in CheckNames, st \in CheckStatuses :
          /\ battery.checks[c] = "pending"
          /\ st \in checkOutcomes(c)
          /\ battery' = [battery EXCEPT !.checks[c] = st]
    /\ UNCHANGED <<wizardVars, resetVars, run, sessionVars>>

\* Per-check exception isolation
checkCrashes ==
    /\ battery.pc = "running"
    /\ \E c \in CheckNames :
          /\ battery.checks[c] = "pending"
          /\ battery' = [battery EXCEPT !.checks[c] = "failed"]
    /\ UNCHANGED <<wizardVars, resetVars, run, sessionVars>>

checkPrerequisitesEnd ==
    /\ battery.pc = "running"
    /\ \A c \in CheckNames : battery.checks[c] # "pending"
    /\ battery' = [battery EXCEPT !.pc = "done",
                                  !.all_passed = all_passed(battery.checks)]
    /\ UNCHANGED <<wizardVars, resetVars, run, sessionVars>>

NextPrerequisites ==
    \/ checkPrerequisitesStart
    \/ checkRuns
    \/ checkCrashes
    \/ checkPrerequisitesEnd

SpecPrerequisites == Init /\ [][NextPrerequisites]_vars

-----------------------------------------------------------------------------
(* Verification on the host: runVerification() -> VerificationRun.  The run *)
(* is created fresh, its tests end one after the other, and the aggregation *)
(* derives the counts and the overall status once the run is complete.      *)

countOf(tests, st) == Cardinality({i \in DOMAIN tests : tests[i] = st})

\* The statuses the rule names for a combination of counts when partial is
\* given to every run with a failure
overallStatusAnyFailure(p, f, s) ==
    LET named == {st \in OverallStatuses :
                     \/ st = "passed" /\ f = 0 /\ s = 0
                     \/ st = "partial" /\ f > 0
                     \/ st = "failed" /\ p = 0}
    IN  IF named = {} THEN OverallStatuses ELSE named

\* The statuses the rule names for a combination of counts: passed if nothing
\* failed and nothing was skipped, partial if something passed and something
\* failed, failed if nothing passed.  Where the rule names none, the
\* aggregation still has to answer with one of the three.
overallStatus(p, f, s) ==
    LET named == {st \in OverallStatuses :
                     \/ st = "passed" /\ f = 0 /\ s = 0
                     \/ st = "partial" /\ p > 0 /\ f > 0
                     \/ st = "failed" /\ p = 0}
    IN  IF named = {} THEN OverallStatuses ELSE named

runVerificationStart ==
    /\ run.pc # "running"
    /\ run' = [noRun EXCEPT !.pc = "running"]
    /\ UNCHANGED <<wizardVars, resetVars, battery, sessionVars>>

testEnds ==
    /\ run.pc = "running"
    /\ Len(run.tests) < MaxTests
    /\ \E st \in TestStatuses : run' = [run EXCEPT !.tests = Append(@, st)]
    /\ UNCHANGED <<wizardVars, resetVars, battery, sessionVars>>

\* A run has at least one test
runAggregate ==
    /\ run.pc = "running"
    /\ Len(run.tests) > 0
    /\ LET p == countOf(run.tests, "passed")
           f == countOf(run.tests, "failed")
           s == countOf(run.tests, "skipped")
       IN  \E st \in overallStatus(p, f, s) :
              run' = [run EXCEPT !.pc = "done", !.total_tests = Len(run.tests),
                                 !.passed = p, !.failed = f, !.skipped = s,
                                 !.overall_status = st]
    /\ UNCHANGED <<wizardVars, resetVars, battery, sessionVars>>

NextVerificationRun ==
    \/ runVerificationStart
    \/ testEnds
    \/ runAggregate

SpecVerificationRun == Init /\ [][NextVerificationRun]_vars

-----------------------------------------------------------------------------
(* stores/auth.ts and the router's navigation guard.  A navigation that has *)
(* to initialize the auth store waits in session.nav; the wizard is on the  *)
(* page while the route is /setup.                                          *)

isAuthenticated(a) == a.token # "null" /\ a.user # "null"

setupCompleted(a) == a.setupStatus = "completed"

\* The routes' meta
requiresAuth(path) == path = "/dashboard"

requiresNoAuth(path) == path \in {"/setup", "/login"}

beforeEachAuthFirst(a, to) ==
    IF to = "/"
    THEN IF ~setupCompleted(a) THEN "/setup"
         ELSE IF ~isAuthenticated(a) THEN "/login"
         ELSE "/dashboard"
    ELSE IF requiresAuth(to) /\ ~isAuthenticated(a) THEN "/login"
    ELSE IF ~setupCompleted(a) /\ to # "/setup" /\ to # "/login" THEN "/setup"
    ELSE IF setupCompleted(a) /\ to = "/setup"
    THEN IF isAuthenticated(a) THEN "/dashboard" ELSE "/login"
    ELSE IF requiresNoAuth(to) /\ isAuthenticated(a) /\ to = "/login" THEN "/dashboard"
    ELSE to

beforeEachSetupNeedsAuth(a, to) ==
    IF to = "/"
    THEN IF ~setupCompleted(a) THEN "/setup"
         ELSE IF ~isAuthenticated(a) THEN "/login"
         ELSE "/dashboard"
    ELSE IF ~setupCompleted(a) /\ to # "/setup" THEN "/setup"
    ELSE IF to = "/setup" /\ ~isAuthenticated(a) THEN "/login"
    ELSE IF setupCompleted(a) /\ to = "/setup" THEN "/dashboard"
    ELSE IF requiresAuth(to) /\ ~isAuthenticated(a) THEN "/login"
    ELSE IF requiresNoAuth(to) /\ isAuthenticated(a) /\ to = "/login" THEN "/dashboard"
    ELSE to

\* router.beforeEach after the store is initialized: the path given to
\* next(), or `to` itself for a plain next()
beforeEach(a, to) ==
    IF to = "/"
    THEN IF ~setupCompleted(a) THEN "/setup"
         ELSE IF ~isAuthenticated(a) THEN "/login"
         ELSE "/dashboard"
    ELSE IF ~setupCompleted(a) /\ to # "/setup" THEN "/setup"
    ELSE IF setupCompleted(a) /\ to = "/setup"
    THEN IF isAuthenticated(a) THEN "/dashboard" ELSE "/login"
    ELSE IF requiresAuth(to) /\ ~isAuthenticated(a) THEN "/login"
    ELSE IF requiresNoAuth(to) /\ isAuthenticated(a) /\ to = "/login" THEN "/dashboard"
    ELSE to

\* initialize() up to its first await: fetchUser if there is a token, then
\* checkSetupStatus
initialize(a, to, origin) ==
    [a EXCEPT !.nav = [to |-> to, origin |-> origin,
                       pc |-> IF a.token # "null" THEN "fetchUser"
                              ELSE "checkSetupStatus"]]

RECURSIVE push(_, _, _)

\* The guard of a navigation to `to` once the store is initialized: the
\* navigation ends on `to`, or is redirected and guarded again
guarded(a, to, origin) ==
    IF beforeEach(a, to) = to
    THEN [a EXCEPT !.route = to, !.finished = origin, !.nav = noNavigation]
    ELSE push(a, beforeEach(a, to), origin)

\* router.push(to): the guard initializes the store if it has no setup status
push(a, to, origin) ==
    IF a.setupStatus = "null" THEN initialize(a, to, origin)
    ELSE guarded(a, to, origin)

\* logout() up to its await, called and not awaited by fetchUser's catch
logoutUnawaited(a) == [a EXCEPT !.logouts = @ + 1]

\* logout(): catch, console.error('Logout failed:', e)
logoutCatch(a) == [a EXCEPT !.logoutFailed = TRUE]

logoutFinallyKeepsStorage(a) == [a EXCEPT !.token = "null", !.user = "null"]

\* logout(): finally
logoutFinally(a) == [a EXCEPT !.token = "null", !.user = "null", !.stored = "null"]

\* logout() after its await: POST /auth/logout answered (ok) or failed
logoutEnds(a, ok) == logoutFinally(IF ok THEN a ELSE logoutCatch(a))

\* GET /auth/setup-status: the setup is completed once a domain is on the host
getSetupStatus == IF hostDomain = "none" THEN "not_completed" ELSE "completed"

SetSession(a) ==
    /\ a.logouts <= MaxLogouts
    /\ session' = a
    /\ UNCHANGED <<wizardVars, resetVars, engineVars>>

\* initialize(): getCurrentUser answered
NavUserReturn ==
    /\ session.nav.pc = "fetchUser"
    /\ SetSession([session EXCEPT !.user = "admin", !.nav.pc = "checkSetupStatus"])

\* initialize(): getCurrentUser threw; fetchUser calls logout() and returns
NavUserThrow ==
    /\ session.nav.pc = "fetchUser"
    /\ SetSession([logoutUnawaited(session) EXCEPT !.nav.pc = "checkSetupStatus"])

\* initialize(): getSetupStatus answered, and the guard goes on
NavStatusReturn ==
    /\ session.nav.pc = "checkSetupStatus"
    /\ SetSession(guarded([session EXCEPT !.setupStatus = getSetupStatus],
                          session.nav.to, session.nav.origin))

\* initialize(): getSetupStatus threw (checkSetupStatus catches), and the
\* guard goes on
NavStatusThrow ==
    /\ session.nav.pc = "checkSetupStatus"
    /\ SetSession(LET n == beforeEach(session, session.nav.to)
                  IN  IF n = session.nav.to
                      THEN [session EXCEPT !.route = n,
                                           !.finished = session.nav.origin,
                                           !.nav = noNavigation]
                      ELSE initialize(session, n, session.nav.origin))

\* Login.vue handleLogin with a username and a password: login() to its await
LoginSubmit ==
    /\ session.route = "/login" /\ session.nav.pc = "idle" /\ session.loginPc = "idle"
    /\ SetSession([session EXCEPT !.loading = TRUE, !.error = FALSE,
                                  !.loginPc = "login", !.loginResult = "none"])

\* login(): the token arrived; fetchUser() to its await
LoginTokenReturn ==
    /\ session.loginPc = "login"
    /\ SetSession([session EXCEPT !.token = "jwt", !.stored = "jwt",
                                  !.loginPc = "fetchUser"])

\* login(): catch and finally; handleLogin shows the error
LoginTokenThrow ==
    /\ session.loginPc = "login"
    /\ SetSession([session EXCEPT !.error = TRUE, !.token = "null", !.user = "null",
                                  !.stored = "null", !.loading = FALSE,
                                  !.loginPc = "idle", !.loginResult = "throw"])

\* login() returned true to handleLogin: router.push('/dashboard')
loginResolved(a) ==
    push([a EXCEPT !.loading = FALSE, !.loginPc = "idle", !.loginResult = "true"],
         "/dashboard", "login")

\* login(): fetchUser() got the user
LoginUserReturn ==
    /\ session.loginPc = "fetchUser"
    /\ SetSession(loginResolved([session EXCEPT !.user = "admin"]))

\* login(): getCurrentUser threw; fetchUser catches it, calls logout() without
\* awaiting it and returns
LoginUserThrow ==
    /\ session.loginPc = "fetchUser"
    /\ SetSession(loginResolved(logoutUnawaited(session)))

\* A logout request that fetchUser's catch sent ended (answer or failure)
LogoutEnds ==
    /\ session.logouts > 0
    /\ \E ok \in BOOLEAN :
          SetSession([logoutEnds(session, ok) EXCEPT !.logouts = @ - 1])

\* DashboardLayout handleLogout: await authStore.logout()
DashboardLogout ==
    /\ session.route = "/dashboard" /\ session.nav.pc = "idle" /\ ~session.loggingOut
    /\ SetSession([session EXCEPT !.loggingOut = TRUE, !.logoutFailed = FALSE])

\* handleLogout after logout() ended: router.push('/login')
DashboardLogoutEnds ==
    /\ session.loggingOut
    /\ \E ok \in BOOLEAN :
          SetSession(push([logoutEnds(session, ok) EXCEPT !.loggingOut = FALSE],
                          "/login", "logout"))

\* CompleteStep goToDashboard: router.push('/dashboard')
CompleteGoToDashboard ==
    /\ currentStep = LastStep /\ Clickable
    /\ session.route = "/setup" /\ session.nav.pc = "idle"
    /\ SetSession(push(session, "/dashboard", "complete"))

\* The page is loaded: the first navigation, to '/', waits for the store
InitSession ==
    /\ InitWizard
    /\ \E stored \in {"null", "jwt"} : session = initialize(newSession(stored), "/", "load")

\* The wizard is on the page
OnSetup == session.route = "/setup"

\* The wizard from Get Started to Complete, and the session around it
NextSession ==
    \/ OnSetup /\ WelcomeGetStarted
    \/ OnSetup /\ PrerequisitesContinue
    \/ OnSetup /\ EditDomainName
    \/ OnSetup /\ EditAdminPassword
    \/ OnSetup /\ EditConfirmPassword
    \/ OnSetup /\ DomainConfigContinue
    \/ OnSetup /\ DNSConfigContinue
    \/ OnSetup /\ ReviewProvision
    \/ OnSetup /\ ProvisionContinue
    \/ OnSetup /\ AutoAdvance
    \/ OnSetup /\ VerificationContinue
    \/ OnSetup /\ WizardStatusReturn
    \/ OnSetup /\ PrerequisitesReturn
    \/ OnSetup /\ ProvisionReturn
    \/ OnSetup /\ VerificationStatusReturn
    \/ OnSetup /\ VerifyReturn
    \/ CompleteGoToDashboard
    \/ NavUserReturn \/ NavUserThrow \/ NavStatusReturn \/ NavStatusThrow
    \/ LoginSubmit \/ LoginTokenReturn \/ LoginTokenThrow
    \/ LoginUserReturn \/ LoginUserThrow
    \/ LogoutEnds
    \/ DashboardLogout \/ DashboardLogoutEnds

SpecSession == InitSession /\ [][NextSession]_vars

-----------------------------------------------------------------------------
(* What a step of the wizard did *)

\* The step sent POST /setup/provision
ProvisionSent == InFlight(tasks', "provision") > InFlight(tasks, "provision")

\* The step sent POST /setup/reset
ResetSent == InFlight(tasks', "reset") > InFlight(tasks, "reset")

\* The step sent POST /setup/verify
VerifySent == InFlight(tasks', "verify") > InFlight(tasks, "verify")

\* The step received the answer (or the failure) of a verification request
\* that the password prompt's submit had started
PromptVerifyEnded ==
    \E t \in tasks : t.pc = "verify" /\ t.origin = "prompt" /\ t \notin tasks'

\* The Provision step shows Go Back and Retry
RetryOffered ==
    currentStep = 5 /\ ~provisioning /\ provisionResponse = "failed"

\* The step ended the mounted Provision step's attempt without success: the
\* response has status failed, or the request itself failed
ProvisionAttemptFailed ==
    /\ currentStep = 5 /\ currentStep' = 5
    /\ provisioning /\ ~provisioning'
    /\ \/ ProvisionThrow
       \/ ProvisionReturn /\ provisionResponse' = "failed"

\* The step delivered a successful response to the Verification step's
\* mount sequence (status check, config preparation, automatic run)
MountSequenceAnswered ==
    /\ currentStep = VerificationStepIndex
    /\ \E t \in tasks \ tasks' :
          t.owner = "verification" /\ t.origin = "mount" /\ t.live
    /\ \/ VerificationStatusReturn
       \/ MountDomainInfoReturn
       \/ RunTestsDomainInfoReturn

\* The user has not touched the Verification step: no run was asked for, no
\* prompt shows, no results are there yet
VerificationUntouched ==
    /\ verificationResults = "null"
    /\ ~needsPassword /\ ~running
    /\ \A t \in tasks : t.owner = "verification" => t.origin = "mount"

\* The mount sequence of the Verification step has a request in flight
\* A request of the mounted Verification step, waiting at pc, was answered
VerificationAnswered(pcs) ==
    /\ currentStep = VerificationStepIndex
    /\ \E t \in tasks \ tasks' : t.owner = "verification" /\ t.live /\ t.pc \in pcs

\* The step ran checkAndPrepareConfig to its end, the domain info loaded or
\* not needed
ConfigCheckEnded ==
    \/ /\ VerificationAnswered({"info1", "info2"})
       /\ MountDomainInfoReturn \/ RunTestsDomainInfoReturn
    \/ /\ currentStep = VerificationStepIndex
       /\ \/ VerificationSubmit \/ VerificationRunAgain
          \/ VerificationAnswered({"status"}) /\ VerificationStatusReturn
       /\ InFlight(tasks', "info1") <= InFlight(tasks, "info1")
       /\ InFlight(tasks', "info2") <= InFlight(tasks, "info2")

\* The step ran checkAndPrepareConfig to its end, getDomainInfo having thrown
ConfigCheckFailed ==
    /\ VerificationAnswered({"info1", "info2"})
    /\ MountDomainInfoThrow \/ RunTestsDomainInfoThrow

\* The checkStatus() that resetDomain awaits was answered (or failed), the
\* reset response before it having been result
ResetRefreshEnded(result) ==
    \E t \in tasks \ tasks' : t.owner = "modal" /\ t.pc = "status" /\ t.origin = result

MountSequenceRunning(tk) ==
    \E t \in tk : t.owner = "verification" /\ t.origin = "mount" /\ t.live

-----------------------------------------------------------------------------
(* Properties *)

\* C1: the wizard never moves from Prerequisites (step 1) to a later step
\* while the last prerequisite result is absent or has all_passed = false,
\* whatever the action (nextStep, goToStep, skipToVerification).
C1_NoPassWithoutPrerequisites ==
    [][(currentStep = 1 /\ currentStep' > 1) => prerequisites = "pass"]_vars

\* C2: the wizard moves from Provision (step 5) to Verification (step 6) only
\* if the last provision response is completed or the user chose the
\* skip-to-verification override.
C2_LeaveProvisionOnlyCompleted ==
    [][(currentStep = 5 /\ currentStep' = VerificationStepIndex)
        => (provisionResponse = "completed" \/ ProvisionSkip \/ ModalSkip)]_vars

\* C3: a provisioning request is sent only if no provisioning request was
\* sent before it, or a resetDomain completed since the previous one.
C3_ProvisionOnlyAfterReset ==
    [][ProvisionSent => ~provisionedSinceReset]_vars

\* C4: no provisioning request is sent while setupStatus.is_provisioned is true.
C4_NoProvisionOverExistingDomain ==
    [][ProvisionSent => setupStatus # "yes"]_vars

\* C5: no provisioning request and no verification request is sent while
\* domainConfig.admin_password has fewer than 8 characters.
C5_RequestsCarryPassword ==
    [][(ProvisionSent \/ VerifySent)
        => Len(domainConfig'.admin_password) >= MinPasswordLength]_vars

\* C6: while the Verification step shows the password prompt (needsPassword),
\* the wizard does not advance to Complete.
C6_PromptBlocksProgress ==
    [][(currentStep = VerificationStepIndex /\ needsPassword)
        => currentStep' # LastStep]_vars

\* C7: resetDomain removes only after the backup was made and verified, and
\* whichever sub-step fails, the host keeps the original domain or a complete
\* backup of it.
C7_ResetKeepsBackupOrDomain ==
    /\ domainPresent(host) \/ backupPresent(host)
    /\ resetPc = "remove" => backupPresent(host)

\* C7 happens: the removal failed half way
C7_RemovalFailedHalfWay ==
    /\ resetPc = "failed"
    /\ host.live # {}
    /\ ~domainPresent(host)

\* C8: once the verification call started from the password prompt has
\* returned, domainConfig.admin_password no longer holds the password.
C8_PromptPasswordNotRetained ==
    [][PromptVerifyEnded => domainConfig'.admin_password = ""]_vars

\* C9: nothing the Verification step writes to the console contains or
\* depends on admin_password.
C9_PasswordNotLogged == "admin_password" \notin consoleLog

\* C10: the auto-advance after a completed provision leaves the wizard at
\* Verification: together with the Continue button it advances once, never
\* on to Complete.
C10_AutoAdvanceEndsAtVerification ==
    [][AutoAdvance => currentStep' = VerificationStepIndex]_vars

\* C11: at most one verification request (POST /setup/verify) is in flight
\* at any moment, whatever the interleaving of the Verification step's mount
\* sequence, Run Tests Again and the password prompt's submit.
C11_OneVerificationInFlight == InFlight(tasks, "verify") <= 1

\* C12: at most one provisioning request (POST /setup/provision) is in
\* flight at any time.
C12_OneProvisionInFlight == InFlight(tasks, "provision") <= 1
\* C13: whenever a provisioning attempt ends without success (status failed,
\* or the request failing with an error), the Provision step offers Retry
\* and Go Back.
C13_RetryAfterFailure ==
    [][ProvisionAttemptFailed => RetryOffered']_vars

\* C14: once a provision has completed and the wizard is on Verification
\* with a password of at least 8 characters, every successful answer to the
\* mount sequence leads on to its next request, up to the verification
\* request, with no user action, whatever domain name and realm were
\* configured.
C14_AutomaticRun ==
    [][(/\ provisionResponse = "completed"
        /\ Len(domainConfig.admin_password) >= MinPasswordLength
        /\ VerificationUntouched
        /\ MountSequenceAnswered)
        => MountSequenceRunning(tasks')]_vars

\* C15: a verification request sent while an existing domain is detected
\* (and there is one on the host) carries the realm and DNS domain name of the live domain, as getDomainInfo
\* reports them.
C15_VerifiesLiveDomain ==
    [][(VerifySent /\ setupStatus' = "yes" /\ hostDomain # "none")
        => /\ domainConfig'.domain_name = toLowerCase(getDomainInfo.Domain)
           /\ domainConfig'.realm = toUpperCase(getDomainInfo.Forest)]_vars
\* C16: every provisioning request is sent by the user entering the
\* Provision step or pressing Retry, and every reset request by the user
\* pressing Reset: none is sent by the wizard on its own.
C16_NoAutomaticProvisionOrReset ==
    [][/\ ProvisionSent => (ReviewProvision \/ ProvisionRetry)
       /\ ResetSent => ModalReset]_vars

\* C20: skipToVerification is taken only from Welcome and only when a
\* provisioned domain is detected; it sets the step to Verification and
\* sends no prerequisite or provisioning request.
C20_SkipOnlyFromWelcome ==
    [][(WelcomeSkip \/ ProvisionSkip \/ ModalSkip)
        => /\ currentStep = 0 /\ setupStatus = "yes"
           /\ currentStep' = VerificationStepIndex
           /\ ~ProvisionSent
           /\ InFlight(tasks', "check") <= InFlight(tasks, "check")]_vars

(* C19: nextStep moves the wizard exactly one step forward and previousStep
   exactly one step back along the eight steps Welcome (0) .. Complete (7),
   changing nothing else of the store; nextStep at Complete and previousStep
   at Welcome leave the step unchanged.  Checked in every reachable state of
   the wizard. *)
C19_StepsMoveByOne ==
    /\ currentStep \in 0..LastStep
    /\ nextStep(St) =
          [St EXCEPT !.currentStep = IF currentStep = LastStep THEN LastStep
                                     ELSE currentStep + 1]
    /\ previousStep(St) =
          [St EXCEPT !.currentStep = IF currentStep = 0 THEN 0
                                     ELSE currentStep - 1]

(* The Complete step is shown while the timeout of the Provision step is
   still pending: nextStep is about to be called at the last step. *)
C19_NextStepAtComplete == currentStep = LastStep /\ timers > 0

\* The rule of the overall status, read on a completed run
followsRule(r) ==
    /\ r.overall_status = "passed" <=> (r.failed = 0 /\ r.skipped = 0)
    /\ r.overall_status = "partial" <=> (r.passed > 0 /\ r.failed > 0)
    /\ r.overall_status = "failed" <=> r.passed = 0

(* C17 as stated: for every combination of passedCount, failedCount and
   skippedCount the overall status of a completed run is passed iff nothing
   failed and nothing was skipped, partial iff something passed and something
   failed, and failed iff nothing passed, all three at once. *)
C17_RuleForEveryCombination ==
    run.pc = "done" => followsRule(run)

(* C17, amended: the counts of a completed run add up to its total, and for
   every combination of counts other than passes with skips and no failure
   the three equivalences hold at once. *)
C17_RuleWhereItNamesAStatus ==
    run.pc = "done" =>
        /\ run.passed + run.failed + run.skipped = run.total_tests
        /\ ~(run.passed > 0 /\ run.failed = 0 /\ run.skipped > 0)
           => followsRule(run)

(* A completed run with a failure, the tests skipped because of it, and
   passes elsewhere: its status is partial. *)
C17_PartialRun ==
    /\ run.pc = "done"
    /\ run.passed > 0 /\ run.failed > 0 /\ run.skipped > 0
    /\ run.overall_status = "partial"

(* C18: for every batch of prerequisite results all_passed is true iff no
   check has status failed; a warning never makes it false, so a batch
   without a failure lets Continue through at the Prerequisites step. *)
C18_AllPassedIffNoFailure ==
    battery.pc = "done" =>
        LET noFailure == \A c \in CheckNames : battery.checks[c] # "failed"
            shown == [St EXCEPT !.currentStep = 1,
                                !.prerequisites = prerequisitesResponse(battery)]
        IN  /\ battery.all_passed <=> noFailure
            /\ noFailure => canProceed(shown)
            /\ ~noFailure => ~canProceed(shown)

(* A finished battery on a host with a domain: existing-domain detection
   warns, nothing failed, and the answer is all_passed *)
C18_WarningDoesNotBlock ==
    /\ battery.pc = "done"
    /\ battery.checks["existing_domain"] = "warning"
    /\ \A c \in CheckNames : battery.checks[c] # "failed"
    /\ battery.all_passed

(* C21: the NetBIOS domain name has at most 15 characters in every
   configuration the wizard submits for provisioning or verification. *)
C21_NetbiosAtMost15 ==
    [][(ProvisionSent \/ VerifySent)
        => Len(domainConfig'.domain) <= MaxNetbiosLength]_vars

\* The passwords of the model by the characters they contain
HasUppercase == {"Str0ngPass1!"}
HasLowercase == {"short", "password", "Str0ngPass1!"}
HasNumber == {"Str0ngPass1!"}

(* C22: the wizard goes from Domain Configuration to DNS Configuration only
   with an administrator password of at least 8 characters that contains
   uppercase, lowercase and a number and equals the confirmation, and with
   realm, NetBIOS domain and DNS domain name non-empty. *)
C22_ContinueOnlyWithValidConfig ==
    [][(currentStep = 2 /\ currentStep' = 3)
        => /\ Len(domainConfig.admin_password) >= MinPasswordLength
           /\ domainConfig.admin_password \in HasUppercase \cap HasLowercase \cap HasNumber
           /\ domainConfig.admin_password = confirmPassword
           /\ domainConfig.realm # ""
           /\ domainConfig.domain # ""
           /\ domainConfig.domain_name # ""]_vars

(* C25: goToStep(s) sets currentStep to s from any step with no guard and
   changes nothing else; where the wizard calls it (Edit Configuration on
   the Review step) domainConfig, prerequisites, provisionResponse,
   verificationResults, setupStatus, loading and error stay as they are. *)
C25_GoToStepOnlyMoves ==
    /\ [](\A step \in Steps : goToStep(St, step) = [St EXCEPT !.currentStep = step])
    /\ [][ReviewEdit
           => /\ currentStep' = 2
              /\ UNCHANGED <<domainConfig, prerequisites, provisionResponse,
                             verificationResults, setupStatus, loading, error>>]_vars

(* The Review step is shown with a configuration that passed the form:
   Edit Configuration, which calls goToStep(2), can be clicked *)
C25_EditOffered ==
    /\ currentStep = 4 /\ Clickable
    /\ Len(domainConfig.admin_password) >= MinPasswordLength
    /\ prerequisites = "pass"
    /\ goToStep(St, 2).currentStep = 2

(* C27: whatever nextStep, previousStep, goToStep, skipToVerification,
   resetWizard and resetDomain were called, currentStep is one of the steps
   0..7 and there is a step component for it. *)
C27_StepHasComponent ==
    /\ currentStep \in Steps
    /\ currentStepComponent(St) # "undefined"

(* skipToVerification was called before any prerequisite check was made *)
C27_SkippedToVerification ==
    /\ currentStep = VerificationStepIndex
    /\ prerequisites = "null"
    /\ setupStatus = "yes"

(* C26: after every completed run of checkAndPrepareConfig on the mounted
   Verification step, needsPassword is true exactly when admin_password has
   fewer than 8 characters or loading the live domain's info failed. *)
C26_PromptIffPasswordMissing ==
    [][/\ ConfigCheckEnded
          => (needsPassword' <=> Len(domainConfig'.admin_password) < MinPasswordLength)
       /\ ConfigCheckFailed => needsPassword']_vars

(* The prompt is shown although the configuration holds a password: loading
   the domain info failed *)
C26_PromptAfterFailedLoad ==
    /\ currentStep = VerificationStepIndex
    /\ needsPassword
    /\ Len(domainConfig.admin_password) >= MinPasswordLength
    /\ "error" \in consoleLog

(* C28: store.resetDomain resets the wizard only when the reset response
   reports success = true; after a response with success = false the step
   and the cached prerequisite, provision and verification results are as
   they were. *)
C28_NoResetWithoutSuccess ==
    [][ResetRefreshEnded("refused")
        => /\ currentStep' = currentStep
           /\ UNCHANGED <<prerequisites, provisionResponse, verificationResults>>]_vars

(* C29: when the reset request succeeded, store.resetDomain completes the
   wizard-side reset whether the status request that follows it succeeds or
   fails: step 0, cached results cleared, the domain no longer shown as
   provisioned. *)
C29_ResetCompletesAfterSuccess ==
    [][ResetRefreshEnded("success")
        => /\ currentStep' = 0
           /\ prerequisites' = "null"
           /\ provisionResponse' = "null"
           /\ verificationResults' = "null"
           /\ setupStatus' # "yes"]_vars

(* C30: the result that gates the Prerequisites step is that of the most
   recent check: every entry to the step performs a new check, and when a
   check of the mounted step fails to return a result, Continue is not
   enabled by an earlier passing result. *)
C30_GateIsLatestCheck ==
    [][/\ (currentStep # 1 /\ currentStep' = 1)
          => InFlight(tasks', "check") > InFlight(tasks, "check")
       /\ (currentStep = 1 /\ currentStep' = 1 /\ PrerequisitesThrow
           /\ \E t \in tasks \ tasks' : t.pc = "check" /\ t.live)
          => prerequisites' # "pass"]_vars

\* login() returned true in this step
LoginResolved == session.loginResult # "true" /\ session'.loginResult = "true"

(* C23: whenever authStore.login() resolves without throwing, isAuthenticated
   is true afterwards, whatever the token request and the user fetch that
   follows it did. *)
C23_ResolvedLoginIsAuthenticated ==
    [][LoginResolved => isAuthenticated(session')]_vars

\* The navigation that Go to Dashboard started ended in this step
GoToDashboardEnded ==
    /\ session'.nav.pc = "idle"
    /\ \/ CompleteGoToDashboard
       \/ session.nav.pc # "idle" /\ session.nav.origin = "complete"

(* C24: from the Complete step Go to Dashboard ends on /dashboard when
   authenticated and on /login when not, and never back on /setup. *)
C24_DashboardAfterComplete ==
    [][GoToDashboardEnded
        => session'.route = IF isAuthenticated(session') THEN "/dashboard"
                            ELSE "/login"]_vars

\* A store action failed in this step: its request threw, and its catch and
\* finally ran
StoreActionFailed == PrerequisitesThrow \/ ProvisionThrow \/ VerifyThrow

(* C31: when checkPrerequisites, provisionDomain or runVerificationTests
   fails, error is set, loading ends false, and currentStep and the cached
   results (prerequisites, provisionResponse, verificationResults) are what
   they were before the failure. *)
C31_FailedActionKeepsState ==
    [][StoreActionFailed
        => /\ error' /\ ~loading'
           /\ UNCHANGED <<currentStep, prerequisites, provisionResponse,
                          verificationResults>>]_vars

\* Run Again failed (runTests logged the rejected request) while the results
\* of an earlier run were shown
C31_FailedRunAgain ==
    /\ currentStep = VerificationStepIndex /\ error /\ ~loading
    /\ verificationResults # "null"
    /\ requestError(verifyRequestBody) \subseteq consoleLog

\* The requests that store actions await: getStatus, checkPrerequisites,
\* provisionDomain, verifyInstallation, resetDomain
StoreRequests == {"status", "check", "provision", "verify", "reset"}

(* C32: loading is true in every state in which at least one store action is
   still in flight, also when store actions overlap. *)
C32_LoadingWhileInFlight ==
    (\E t \in tasks : t.pc \in StoreRequests) => loading

(* C33: resetWizard sets currentStep to 0 and clears prerequisites,
   verificationResults, provisionResponse and error, and changes nothing
   else: domainConfig (admin_password included), setupStatus and loading keep
   their values, also when Run Setup Again calls it on the Complete step. *)
C33_ResetWizardFrame ==
    /\ [](resetWizard(St) = [St EXCEPT !.currentStep = 0, !.prerequisites = "null",
                                       !.verificationResults = "null",
                                       !.provisionResponse = "null",
                                       !.error = FALSE])
    /\ [][CompleteRunAgain
           => /\ currentStep' = 0 /\ prerequisites' = "null"
              /\ verificationResults' = "null" /\ provisionResponse' = "null"
              /\ ~error'
              /\ UNCHANGED <<domainConfig, setupStatus, loading>>]_vars

\* Back on Welcome after Run Setup Again: the domain this wizard provisioned is
\* on the host, the results are cleared and the password is still in the
\* configuration
C33_ResetKeptPassword ==
    /\ currentStep = 0 /\ prerequisites = "null" /\ verificationResults = "null"
    /\ Len(domainConfig.admin_password) >= MinPasswordLength
    /\ setupStatus = "yes" /\ hostDomain # "none" /\ provisionedSinceReset

\* The paths of the router's routes
Routes == {"/", "/setup", "/login", "/dashboard"}

\* A navigation ended in this step: the guard called next() with no redirect
NavigationEnded ==
    \/ session.nav.pc # "idle" /\ session'.nav.pc = "idle"
    \/ session'.finished # session.finished

(* C34: while the setup is not completed (the auth store's setupStatus is
   missing or says is_completed false), every navigation, to /, /login,
   /dashboard or /setup, ends on /setup, whether the user is authenticated or
   not. *)
C34_SetupFirst ==
    /\ [](\A to \in Routes :
            (session.setupStatus # "null" /\ ~setupCompleted(session))
               => guarded(session, to, "any").route = "/setup")
    /\ [][(NavigationEnded /\ ~setupCompleted(session'))
           => session'.route = "/setup"]_vars

\* The page was loaded with a valid token before the setup was completed: the
\* authenticated user is on /setup
C34_AuthenticatedOnSetup ==
    /\ session.route = "/setup" /\ session.nav.pc = "idle"
    /\ isAuthenticated(session) /\ session.setupStatus = "not_completed"

RECURSIVE settles(_, _, _)

\* The guard, asked for `to` with the store as it is in a, calls a plain
\* next() after at most n redirects
settles(a, to, n) ==
    \/ beforeEach(a, to) = to
    \/ n > 0 /\ settles(a, beforeEach(a, to), n - 1)

(* C35: for every combination of setupCompleted, isAuthenticated and target
   route the guard settles on a final route after finitely many redirects: a
   chain of redirects among /, /setup, /login and /dashboard that does not
   loop visits no route twice, so it has fewer redirects than there are
   routes. *)
C35_RedirectsSettle ==
    \A to \in Routes : settles(session, to, Cardinality(Routes) - 1)

\* An authenticated user after the setup was completed, on /dashboard after a
\* login: the guard redirects /, /setup and /login from here
C35_RedirectedToDashboard ==
    /\ setupCompleted(session) /\ isAuthenticated(session)
    /\ session.route = "/dashboard" /\ session.finished = "login"
    /\ \A to \in {"/", "/setup", "/login"} : beforeEach(session, to) = "/dashboard"

(* C36: logout always ends with token = null, user = null and no
   access_token in localStorage, whether POST /auth/logout succeeds or fails,
   and it never throws: handleLogout goes on to router.push('/login'). *)
C36_LogoutAlwaysClears ==
    [][/\ (LogoutEnds \/ DashboardLogoutEnds)
          => /\ session'.token = "null" /\ session'.user = "null"
             /\ session'.stored = "null"
       /\ DashboardLogoutEnds
          => (session'.finished = "logout" \/ session'.nav.origin = "logout")]_vars

\* The user logged out of the dashboard, the logout request failed, and the
\* session is cleared on /login
C36_LoggedOutAfterFailure ==
    /\ session.logoutFailed /\ ~session.loggingOut /\ session.logouts = 0
    /\ session.finished = "logout" /\ session.route = "/login"
    /\ session.token = "null" /\ session.user = "null" /\ session.stored = "null"

(* C37: a session established by a successful login stays authenticated
   until the user logs out or a user fetch fails for it: a logout that an
   earlier failed fetchUser started in the background never clears the
   token and user of a later successful login.  No user is fetched after a
   login resolved with the user set, so a background logout that ends then
   was started by an earlier fetch. *)
C37_BackgroundLogoutKeepsSession ==
    [][(LogoutEnds /\ session.loginResult = "true" /\ isAuthenticated(session))
        => isAuthenticated(session')]_vars

=============================================================================
